---- MODULE Spec2Model ----
(***************************************************************************)
(* State-machine model of the AI startup battle: HomePage's phase machine, *)
(* the BattleArena fetch / retry / completion orchestration, and the       *)
(* error-handling library (parseAPIError, withRetry).                      *)
(*                                                                         *)
(* Text is modelled as a sequence of pieces.  A piece is a run of          *)
(* characters [t, i, len, ws]: t names the text it belongs to, i is its    *)
(* index in that text, len its number of characters and ws whether the     *)
(* run is whitespace.  SP is one space character.                          *)
(***************************************************************************)
EXTENDS Integers, Sequences, FiniteSets, TLC

\* ------------------------------------------------------------------ bounds
MaxRounds == 2
MaxFaults == 4
MaxFaulty == 1
MaxManual == 1
MaxOdd == 1
MaxTime == 4        \* ticks of the clock a circuit breaker may see

\* ------------------------------------------------------- program constants
maxRetries == 3
MinContentLength == 50
BatchThreshold == 5

AIProvider == {"groq", "openai", "anthropic"}
models == <<"groq", "openai", "anthropic">>

CONCEPTS == {"c1", "c2"}
USER_GROUPS == {"u1"}

Insts == 1..MaxRounds
Chains == 0..MaxManual

\* ------------------------------------------------------------------- text
RECURSIVE CharLen(_)
CharLen(s) == IF s = <<>> THEN 0 ELSE Head(s).len + CharLen(Tail(s))

RECURSIVE TrimStart(_)
TrimStart(s) == IF s # <<>> /\ Head(s).ws THEN TrimStart(Tail(s)) ELSE s

RECURSIVE TrimEnd(_)
TrimEnd(s) ==
    IF s # <<>> /\ s[Len(s)].ws THEN TrimEnd(SubSeq(s, 1, Len(s) - 1)) ELSE s

\* String.prototype.trim on a sequence of pieces
Trim(s) == TrimEnd(TrimStart(s))

\* every tag has the same shape: <<kind, instance, provider, chain, retryCount,
\* concept, userGroup>>
SP == [t |-> <<"sp", 0, "", 0, 0, "", "">>, i |-> 0, len |-> 1, ws |-> TRUE]

\* content.split(" "): the words between single spaces
RECURSIVE Split(_)
Split(s) ==
    IF s = <<>> THEN << <<>> >>
    ELSE LET rest == Split(Tail(s))
         IN IF Head(s) = SP THEN << <<>> >> \o rest
            ELSE << <<Head(s)>> \o Head(rest) >> \o Tail(rest)

\* words.join(" ")
RECURSIVE Join(_)
Join(ws) ==
    IF ws = <<>> THEN <<>>
    ELSE IF Len(ws) = 1 THEN ws[1]
    ELSE ws[1] \o <<SP>> \o Join(Tail(ws))

\* a request is named by the arena instance, provider, chain and retryCount
ReqTag(i, p, c, rc) == <<"srv", i, p, c, rc, "", "">>

\* the texts an endpoint may stream: a pitch in one chunk, a pitch in two
\* chunks, and a degenerate near-empty one
LongText(tag) == << [t |-> tag, i |-> 1, len |-> 70, ws |-> FALSE] >>
ChunkedText(tag) == << [t |-> tag, i |-> 1, len |-> 30, ws |-> FALSE],
                       [t |-> tag, i |-> 2, len |-> 40, ws |-> FALSE] >>
ShortText(tag) == << [t |-> tag, i |-> 1, len |-> 3, ws |-> FALSE],
                     [t |-> tag, i |-> 2, len |-> 60, ws |-> TRUE] >>
JsonText(tag) == << [t |-> tag, i |-> 1, len |-> 30, ws |-> FALSE], SP,
                    [t |-> tag, i |-> 2, len |-> 40, ws |-> FALSE] >>

\* generateMockPitch: one template per provider, filled with the topics
MockLen(provider) ==
    IF provider = "groq" THEN 700 ELSE IF provider = "openai" THEN 800 ELSE 900
generateMockPitch(concept, userGroup, provider) ==
    << [t |-> <<"mock", 0, provider, 0, 0, concept, userGroup>>, i |-> 1,
        len |-> MockLen(provider), ws |-> FALSE] >>

\* ------------------------------------------------------- endpoint responses
\* one network chunk: an SSE frame `data: {type, content}\n\n` (groq route) or
\* a run of plain text (openai / anthropic routes)
SseText(piece) == [sse |-> TRUE, type |-> "text", content |-> <<piece>>]
SseDone == [sse |-> TRUE, type |-> "done", content |-> <<>>]
RawChunk(piece) == [sse |-> FALSE, type |-> "raw", content |-> <<piece>>]

\* the chunks the provider's route emits for a text
ServerChunks(provider, text) ==
    IF provider = "groq"
    THEN [k \in 1..(Len(text) + 1) |->
            IF k <= Len(text) THEN SseText(text[k]) ELSE SseDone]
    ELSE [k \in 1..Len(text) |-> RawChunk(text[k])]

\* the literal characters of an SSE frame, when it is appended undecoded
FrameLiteral(chunk) ==
    << [t |-> <<"frame", 0, "", 0, 0, "", "">>, i |-> 0,
        len |-> 30 + CharLen(chunk.content), ws |-> FALSE] >>

\* what one chunk adds to updateQueue
DecodeChunk(provider, chunk) ==
    IF provider = "groq" /\ chunk.sse
    THEN IF chunk.type = "text" /\ chunk.content # <<>> THEN chunk.content
         ELSE <<>>
    ELSE IF chunk.sse THEN FrameLiteral(chunk) ELSE chunk.content

StreamKinds == {"long", "chunked", "short"}
StreamText(kind, tag) ==
    IF kind = "long" THEN LongText(tag)
    ELSE IF kind = "chunked" THEN ChunkedText(tag)
    ELSE ShortText(tag)
\* the failures of a request the fetcher sees: `HTTP ${status}` of a response
\* that is not ok (500: also the route's answer when its API key is missing;
\* 401: the route's AUTH_ERROR), and a network error while reading
FailKinds == {"HTTP 500", "HTTP 401"}

\* ------------------------------------------------------------------- state
VARIABLES
    appState,               \* HomePage: phase, concept, userGroup, pitches
    round,                  \* number of BattleArena instances mounted so far
    mounted,                \* per instance: the component is mounted
    readonly,               \* per instance: the readonly prop
    topics,                 \* per instance: the concept / userGroup props
    pitches,                \* per instance: PitchState
    abortControllersRef,    \* per instance: provider -> chain of the controller
    completionCheckTimeoutRef, \* per instance: the 100 ms timer is pending
    pendingComplete,        \* per instance: the setTimeout(.., 0) of the callback
    started,                \* per instance: staggered start timers fired
    calls,                  \* per instance: invocations of onPitchesComplete
    procs,                  \* per (instance, provider, chain): one streamPitch run
    budget,                 \* what the environment may still do: rounds,
                            \* network failures, odd responses, retry clicks
    faulty,                 \* the runs the network has failed so far
    raw,                    \* error-handling: the value handed to parseAPIError
    classified,             \* error-handling: the APIError it returned
    retry,                  \* error-handling: one call of withRetry
    judge,                  \* api-client: one call of generateJudgeVerdict
    post,                   \* pitch route: one POST
    stream,                 \* battle-arena: one event stream being read
    fallback,               \* error-handling: one call of executeWithFallbacks
    breaker                 \* error-handling: one CircuitBreaker and its callers

arenaVars == <<mounted, readonly, topics, pitches, abortControllersRef,
               completionCheckTimeoutRef, pendingComplete, started, calls,
               procs, budget, faulty>>
homeVars == <<appState, round>>
libVars == <<raw, classified, retry, judge, post, stream, fallback, breaker>>

NoCtrl == 0 - 1
NoError == <<>>

Slot0 == [content |-> <<>>, isComplete |-> FALSE, error |-> NoError,
          isRetrying |-> FALSE]
PitchState0 == [p \in AIProvider |-> Slot0]

Proc0 == [pc |-> "idle", rc |-> 0, attempts |-> 0, aborted |-> FALSE,
          chunks |-> <<>>, text |-> <<>>, acc |-> <<>>, queue |-> <<>>,
          raf |-> FALSE, words |-> <<>>, idx |-> 0]

Keys == Insts \X AIProvider \X Chains

\* the sessions explored: automatic behaviour over several rounds with odd
\* responses; a retry click with one failure, over several rounds; a retry
\* click with a provider that fails to the end, in one round
Budgets ==
    { [rounds |-> MaxRounds, faults |-> MaxFaults, odd |-> MaxOdd, clicks |-> 0],
      [rounds |-> MaxRounds, faults |-> 1, odd |-> 0, clicks |-> MaxManual],
      [rounds |-> 1, faults |-> MaxFaults, odd |-> 0, clicks |-> MaxManual] }

AppSpinning == [phase |-> "spinning", concept |-> "", userGroup |-> "",
                pitches |-> <<>>]

InitArena ==
    /\ mounted = [i \in Insts |-> FALSE]
    /\ readonly = [i \in Insts |-> FALSE]
    /\ topics = [i \in Insts |-> [concept |-> "", userGroup |-> ""]]
    /\ pitches = [i \in Insts |-> PitchState0]
    /\ abortControllersRef = [i \in Insts |-> [p \in AIProvider |-> NoCtrl]]
    /\ completionCheckTimeoutRef = [i \in Insts |-> FALSE]
    /\ pendingComplete = [i \in Insts |-> <<>>]
    /\ started = [i \in Insts |-> 0]
    /\ calls = [i \in Insts |-> 0]
    /\ procs = [k \in Keys |-> Proc0]
    /\ faulty = {}

InitHome ==
    /\ appState = AppSpinning
    /\ round = 0

\* --------------------------------------------------------------- BattleArena
\* an update that rebuilds the state from the initial slots
ReplacePitches(i, p, slot) ==
    IF mounted[i] THEN [pitches EXCEPT ![i] = [PitchState0 EXCEPT ![p] = slot]]
    ELSE pitches

\* setPitches(prev => ({...prev, [provider]: slot})); React drops the update
\* of a component that is no longer mounted
setPitches(i, p, slot) ==
    IF mounted[i] THEN [pitches EXCEPT ![i][p] = slot] ELSE pitches

\* the slot written when streamPitch starts
ResetSlot(retryCount) ==
    [content |-> <<>>, isComplete |-> FALSE, error |-> NoError,
     isRetrying |-> retryCount > 0]

\* content / isRetrying update of a batch flush or a word-reveal tick
ContentSlot(slot, content) ==
    [slot EXCEPT !.content = content, !.isRetrying = FALSE]

\* "Mark as complete"
CompleteSlot(slot) == [slot EXCEPT !.isComplete = TRUE, !.error = NoError]

\* the error recorded by the catch block
ApiError(message, retryCount) ==
    <<[code |-> "STREAM_ERROR", message |-> message,
       retryable |-> retryCount < maxRetries]>>
ErrorSlot(slot, apiError) ==
    [slot EXCEPT !.error = apiError, !.isRetrying = FALSE]

\* "Mark as failed after max retries"
FailedSlot(concept, userGroup, provider, apiError) ==
    [content |-> <<>>, isComplete |-> TRUE, error |-> apiError,
     isRetrying |-> FALSE]

\* a retry decision that counts the first attempt among the maxRetries
RetryBelowLast(retryCount) == retryCount + 1 < maxRetries

\* the retry decision of the catch block
ShouldRetry(retryCount) == retryCount < maxRetries

\* streamPitch(provider, retryCount), up to the await of fetch
streamPitch(i, p, c, retryCount, attempts) ==
    /\ abortControllersRef' = [abortControllersRef EXCEPT ![i][p] = c]
    /\ pitches' = setPitches(i, p, ResetSlot(retryCount))
    /\ procs' = [procs EXCEPT ![<<i, p, c>>] =
                    [Proc0 EXCEPT !.pc = "fetch", !.rc = retryCount,
                                  !.attempts = attempts]]

\* debouncedCheckAllComplete: clear the pending timer, set a new one
debouncedCheckAllComplete(i) ==
    [completionCheckTimeoutRef EXCEPT ![i] = TRUE]

\* the staggered start timers of the mount effect fire in the order set
StaggerStart(i) ==
    /\ i <= round
    /\ started[i] < Len(models)
    /\ started' = [started EXCEPT ![i] = @ + 1]
    /\ streamPitch(i, models[started[i] + 1], 0, 0, 1)
    /\ UNCHANGED <<mounted, readonly, topics, completionCheckTimeoutRef,
                   pendingComplete, calls, budget, faulty, homeVars, libVars>>

\* a run of streamPitch that has returned and left no callback behind: its
\* closure is unreachable, and once the component is unmounted nothing reads
\* what the run had received
Ended(pr) == pr.pc \in {"done", "failed", "aborted"} /\ ~pr.raf
Settle(i, pr) ==
    IF ~mounted[i] /\ Ended(pr) THEN [Proc0 EXCEPT !.pc = pr.pc] ELSE pr

\* the catch block for an error that is not an AbortError
CatchError(i, p, c, message) ==
    LET rc == procs[<<i, p, c>>].rc
        apiError == ApiError(message, rc)
        errored == ErrorSlot(pitches[i][p], apiError)
    IN IF ShouldRetry(rc)
       THEN /\ pitches' = setPitches(i, p, errored)
            /\ procs' = [procs EXCEPT ![<<i, p, c>>].pc = "wait"]
            /\ UNCHANGED completionCheckTimeoutRef
       ELSE /\ pitches' = setPitches(i, p,
                    FailedSlot(topics[i].concept, topics[i].userGroup, p,
                               apiError))
            /\ procs' = [procs EXCEPT ![<<i, p, c>>] =
                            Settle(i, [@ EXCEPT !.pc = "failed"])]
            /\ completionCheckTimeoutRef' = debouncedCheckAllComplete(i)

\* one more request of run k may fail; a client-error status is one of the
\* odd events of a session
OddFailure(message) == message \notin {"HTTP 500", "network error"}
MayFail(k, message) ==
    /\ budget.faults > 0
    /\ OddFailure(message) => budget.odd > 0
    /\ Cardinality(faulty \cup {k}) <= MaxFaulty
Fail(k, message) ==
    /\ budget' = [budget EXCEPT !.faults = @ - 1,
                                !.odd = IF OddFailure(message) THEN @ - 1 ELSE @]
    /\ faulty' = faulty \cup {k}

\* fetch rejects, or the response is not ok
ResponseFail(i, p, c) ==
    /\ procs[<<i, p, c>>].pc = "fetch"
    /\ ~procs[<<i, p, c>>].aborted
    /\ \E message \in FailKinds :
         /\ MayFail(<<i, p, c>>, message)
         /\ Fail(<<i, p, c>>, message)
         /\ CatchError(i, p, c, message)
    /\ UNCHANGED <<mounted, readonly, topics, abortControllersRef, pendingComplete,
                   started, calls, homeVars, libVars>>

\* a streaming response arrives: the read loop starts
ResponseStream(i, p, c) ==
    /\ procs[<<i, p, c>>].pc = "fetch"
    /\ ~procs[<<i, p, c>>].aborted
    /\ \E kind \in StreamKinds :
         /\ kind # "long" => budget.odd > 0
         /\ budget' = IF kind = "long" THEN budget
                       ELSE [budget EXCEPT !.odd = @ - 1]
         /\ LET tag == ReqTag(i, p, c, procs[<<i, p, c>>].rc)
                text == StreamText(kind, tag)
            IN procs' = [procs EXCEPT ![<<i, p, c>>].pc = "read",
                                      ![<<i, p, c>>].text = text,
                                      ![<<i, p, c>>].chunks =
                                          ServerChunks(p, text)]
    /\ UNCHANGED <<mounted, readonly, topics, pitches, abortControllersRef,
                   completionCheckTimeoutRef, pendingComplete, started, calls,
                   faulty, homeVars, libVars>>

\* an application/json response arrives: the word-reveal interval starts
ResponseJson(i, p, c) ==
    /\ procs[<<i, p, c>>].pc = "fetch"
    /\ ~procs[<<i, p, c>>].aborted
    /\ budget.odd > 0
    /\ budget' = [budget EXCEPT !.odd = @ - 1]
    /\ LET text == JsonText(ReqTag(i, p, c, procs[<<i, p, c>>].rc))
       IN procs' = [procs EXCEPT ![<<i, p, c>>].pc = "interval",
                                 ![<<i, p, c>>].text = text,
                                 ![<<i, p, c>>].words = Split(text),
                                 ![<<i, p, c>>].idx = 0]
    /\ UNCHANGED <<mounted, readonly, topics, pitches, abortControllersRef,
                   completionCheckTimeoutRef, pendingComplete, started, calls,
                   faulty, homeVars, libVars>>

\* one reader.read() that returns a chunk
ReadChunk(i, p, c) ==
    LET pr == procs[<<i, p, c>>]
        queue == pr.queue \o DecodeChunk(p, Head(pr.chunks))
        schedule == CharLen(queue) >= BatchThreshold /\ ~pr.raf /\ queue # <<>>
    IN /\ pr.pc = "read"
       /\ ~pr.aborted
       /\ pr.chunks # <<>>
       /\ procs' = [procs EXCEPT ![<<i, p, c>>].chunks = Tail(pr.chunks),
                                 ![<<i, p, c>>].queue = queue,
                                 ![<<i, p, c>>].raf = pr.raf \/ schedule]
       /\ UNCHANGED <<mounted, readonly, topics, pitches, abortControllersRef,
                      completionCheckTimeoutRef, pendingComplete, started,
                      calls, budget, faulty, homeVars, libVars>>

\* the requestAnimationFrame callback of scheduleUpdate
RafFlush(pr) ==
    [pr EXCEPT !.acc = pr.acc \o pr.queue, !.queue = <<>>, !.raf = FALSE]

RafFire(i, p, c) ==
    LET pr == procs[<<i, p, c>>]
        after == RafFlush(pr)
    IN /\ pr.raf
       /\ procs' = [procs EXCEPT ![<<i, p, c>>] = Settle(i, after)]
       /\ pitches' = setPitches(i, p, ContentSlot(pitches[i][p], after.acc))
       /\ UNCHANGED <<mounted, readonly, topics, abortControllersRef,
                      completionCheckTimeoutRef, pendingComplete, started,
                      calls, budget, faulty, homeVars, libVars>>

\* "Final update to ensure all content is displayed": the closure after it
FinalFlush(pr) ==
    IF pr.queue # <<>> THEN [pr EXCEPT !.acc = pr.acc \o pr.queue] ELSE pr

\* reader.read() returns done: final update, mark complete, debounced check.
\* The stream ending within the animation frame of its last batch is one of
\* the odd events of a session.
ReadDone(i, p, c) ==
    LET pr == procs[<<i, p, c>>]
        after == FinalFlush(pr)
        flushed == IF pr.queue # <<>> THEN ContentSlot(pitches[i][p], after.acc)
                   ELSE pitches[i][p]
    IN /\ pr.pc = "read"
       /\ ~pr.aborted
       /\ pr.chunks = <<>>
       /\ pr.raf => budget.odd > 0
       /\ budget' = IF pr.raf THEN [budget EXCEPT !.odd = @ - 1] ELSE budget
       /\ procs' = [procs EXCEPT ![<<i, p, c>>] =
                       Settle(i, [after EXCEPT !.pc = "done"])]
       /\ pitches' = setPitches(i, p, CompleteSlot(flushed))
       /\ completionCheckTimeoutRef' = debouncedCheckAllComplete(i)
       /\ UNCHANGED <<mounted, readonly, topics, abortControllersRef,
                      pendingComplete, started, calls, faulty, homeVars, libVars>>

\* reader.read() rejects with a network error
ReadError(i, p, c) ==
    /\ procs[<<i, p, c>>].pc = "read"
    /\ ~procs[<<i, p, c>>].aborted
    /\ MayFail(<<i, p, c>>, "network error")
    /\ Fail(<<i, p, c>>, "network error")
    /\ CatchError(i, p, c, "network error")
    /\ UNCHANGED <<mounted, readonly, topics, abortControllersRef,
                   pendingComplete, started, calls, homeVars, libVars>>

\* a catch block without the AbortError test: the cancelled run waits for its
\* retry like a failed one
CatchAsFailure(pr) == [pr EXCEPT !.pc = "wait"]

\* the catch block for an AbortError: return
CatchAbort(pr) == [pr EXCEPT !.pc = "aborted"]

AbortedFetch(i, p, c) ==
    /\ procs[<<i, p, c>>].pc \in {"fetch", "read"}
    /\ procs[<<i, p, c>>].aborted
    /\ procs' = [procs EXCEPT ![<<i, p, c>>] = Settle(i, CatchAbort(@))]
    /\ UNCHANGED <<mounted, readonly, topics, pitches, abortControllersRef,
                   completionCheckTimeoutRef, pendingComplete, started, calls,
                   budget, faulty, homeVars, libVars>>

\* the retry setTimeout fires (a pending animation frame of the failed run,
\* due within one frame, has fired before the backoff of a second or more)
RetryTimer(i, p, c) ==
    LET pr == procs[<<i, p, c>>]
    IN /\ pr.pc = "wait"
       /\ ~pr.raf
       /\ streamPitch(i, p, c, pr.rc + 1, pr.attempts + 1)
       /\ UNCHANGED <<mounted, readonly, topics, completionCheckTimeoutRef,
                      pendingComplete, started, calls, budget, faulty, homeVars, libVars>>

\* one tick of streamInterval
IntervalTick(i, p, c) ==
    LET pr == procs[<<i, p, c>>]
    IN /\ pr.pc = "interval"
       /\ IF pr.idx < Len(pr.words)
          THEN /\ pitches' = setPitches(i, p, ContentSlot(pitches[i][p],
                                 Join(SubSeq(pr.words, 1, pr.idx + 1))))
               /\ procs' = [procs EXCEPT ![<<i, p, c>>].idx = pr.idx + 1]
               /\ UNCHANGED completionCheckTimeoutRef
          ELSE /\ pitches' = setPitches(i, p, CompleteSlot(pitches[i][p]))
               /\ procs' = [procs EXCEPT ![<<i, p, c>>] =
                               Settle(i, [pr EXCEPT !.pc = "done"])]
               /\ completionCheckTimeoutRef' = debouncedCheckAllComplete(i)
       /\ UNCHANGED <<mounted, readonly, topics, abortControllersRef,
                      pendingComplete, started, calls, budget, faulty, homeVars, libVars>>

\* the status line of a provider's card
StatusLabel(slot) ==
    IF slot.error # NoError /\ ~slot.isRetrying THEN "ERROR - CLICK TO RETRY"
    ELSE IF slot.isRetrying THEN "RETRYING..."
    ELSE IF slot.isComplete THEN "PITCH COMPLETE"
    ELSE "GENERATING..."

\* the RETRY button of the header, or "Click to retry" of the body, is shown
RetryVisible(slot) ==
    \/ slot.error # NoError /\ ~slot.isRetrying
    \/ slot.error # NoError /\ slot.content = <<>>

\* a chain whose previous run has ended and left nothing pending
FreeChain(i, p, c) ==
    /\ procs[<<i, p, c>>].pc \in {"idle", "done", "failed", "aborted"}
    /\ ~procs[<<i, p, c>>].raf

\* retryPitch(provider): the user clicks a retry control
retryPitch(i, p) ==
    /\ mounted[i]
    /\ RetryVisible(pitches[i][p])
    /\ budget.clicks > 0
    /\ budget' = [budget EXCEPT !.clicks = @ - 1]
    /\ \E c \in Chains :
         /\ FreeChain(i, p, c)
         /\ \A d \in Chains : d < c => ~FreeChain(i, p, d)
         /\ streamPitch(i, p, c, 0, 1)
    /\ UNCHANGED <<mounted, readonly, topics, completionCheckTimeoutRef,
                   pendingComplete, started, calls, faulty, homeVars, libVars>>

\* hasValidContent of checkAllComplete
hasValidContent(content) == CharLen(Trim(content)) > MinContentLength

allComplete(ps) == \A p \in AIProvider : ps[p].isComplete
allHaveContent(ps) == \A p \in AIProvider : hasValidContent(ps[p].content)

finalPitches(ps) == [p \in AIProvider |-> ps[p].content]

\* the readonly that checkAllComplete sees: streamPitch is memoised on
\* [concept, userGroup], so the check it reaches is the one of the mount
\* render, and a BattleArena is always mounted in the battling phase
ClosureReadonly(i) == FALSE

\* the gate of checkAllComplete: the callback is scheduled
GateOpen(i) ==
    /\ ~ClosureReadonly(i)
    /\ mounted[i]
    /\ allComplete(pitches[i])
    /\ allHaveContent(pitches[i])

\* the 100 ms timer fires: checkAllComplete (a setTimeout(.., 0) set by an
\* earlier check has run before a timer of 100 ms set after it)
CheckAllComplete(i) ==
    /\ completionCheckTimeoutRef[i]
    /\ pendingComplete[i] = <<>>
    /\ completionCheckTimeoutRef' = [completionCheckTimeoutRef EXCEPT ![i] = FALSE]
    /\ pendingComplete' =
         IF GateOpen(i)
         THEN [pendingComplete EXCEPT ![i] = <<finalPitches(pitches[i])>>]
         ELSE pendingComplete
    /\ UNCHANGED <<mounted, readonly, topics, pitches, abortControllersRef,
                   started, calls, procs, budget, faulty, homeVars, libVars>>

\* the effect cleanup: abort every controller of the map, clear the map,
\* clear the completion-check timer
AbortAll(i, ps) ==
    [k \in Keys |->
        IF /\ k[1] = i
           /\ abortControllersRef[i][k[2]] = k[3]
           /\ ps[k].pc \in {"fetch", "read"}
        THEN [ps[k] EXCEPT !.aborted = TRUE]
        ELSE ps[k]]

Cleanup(i) ==
    /\ procs' = AbortAll(i, procs)
    /\ abortControllersRef' =
         [abortControllersRef EXCEPT ![i] = [p \in AIProvider |-> NoCtrl]]
    /\ completionCheckTimeoutRef' = [completionCheckTimeoutRef EXCEPT ![i] = FALSE]

\* the effect body when readonly is true
LoadingText ==
    << [t |-> <<"loading", 0, "", 0, 0, "", "">>, i |-> 0, len |-> 27,
        ws |-> FALSE] >>
ReadonlyEffect(ps) ==
    IF \E p \in AIProvider : ps[p].content # <<>>
    THEN [p \in AIProvider |-> [ps[p] EXCEPT !.isComplete = TRUE]]
    ELSE [p \in AIProvider |->
            [content |-> LoadingText, isComplete |-> FALSE, error |-> NoError,
             isRetrying |-> FALSE]]

\* ------------------------------------------------------------------ HomePage
\* handleSpinComplete: the wheels stop on a concept and a user group
handleSpinComplete(concept, userGroup) ==
    /\ appState.phase = "spinning"
    /\ budget.rounds > 0
    /\ budget' = [budget EXCEPT !.rounds = @ - 1]
    /\ appState' = [phase |-> "revealing", concept |-> concept,
                    userGroup |-> userGroup, pitches |-> <<>>]
    /\ UNCHANGED <<round, mounted, readonly, topics, pitches,
                   abortControllersRef, completionCheckTimeoutRef,
                   pendingComplete, started, calls, procs, faulty, libVars>>

SpinComplete ==
    \E concept \in CONCEPTS, userGroup \in USER_GROUPS :
        handleSpinComplete(concept, userGroup)

\* the 2 s timer of handleSpinComplete: battling, a BattleArena is mounted
\* (a setTimeout(.., 0) or an animation frame of an earlier round has long
\* run by then)
RevealDone ==
    /\ appState.phase = "revealing"
    /\ \A i \in Insts : pendingComplete[i] = <<>>
    /\ \A k \in Keys : ~procs[k].raf
    /\ appState' = [appState EXCEPT !.phase = "battling"]
    /\ round' = round + 1
    /\ mounted' = [mounted EXCEPT ![round + 1] = TRUE]
    /\ topics' = [topics EXCEPT ![round + 1] =
                    [concept |-> appState.concept,
                     userGroup |-> appState.userGroup]]
    /\ UNCHANGED <<readonly, pitches, abortControllersRef,
                   completionCheckTimeoutRef, pendingComplete, started, calls,
                   procs, budget, faulty, libVars>>

\* a callback that moves to judging from whatever phase it finds
JudgeFromAnyPhase(prevState, ps) ==
    [phase |-> "judging", concept |-> prevState.concept,
     userGroup |-> prevState.userGroup, pitches |-> <<ps>>]

\* handlePitchesComplete: the state HomePage moves to
handlePitchesComplete(prevState, ps) ==
    IF prevState.phase = "battling"
    THEN [phase |-> "judging", concept |-> prevState.concept,
          userGroup |-> prevState.userGroup, pitches |-> <<ps>>]
    ELSE prevState

\* the setTimeout(() => onPitchesComplete(finalPitches), 0) runs; when the
\* phase becomes judging the arena is re-rendered readonly: its effect is
\* cleaned up and run again
OnPitchesComplete(i) ==
    /\ pendingComplete[i] # <<>>
    /\ pendingComplete' = [pendingComplete EXCEPT ![i] = <<>>]
    /\ calls' = [calls EXCEPT ![i] = @ + 1]
    /\ appState' = handlePitchesComplete(appState, pendingComplete[i][1])
    /\ IF appState.phase = "battling"
       THEN /\ readonly' = [readonly EXCEPT ![round] = TRUE]
            /\ Cleanup(round)
            /\ pitches' = [pitches EXCEPT ![round] = ReadonlyEffect(@)]
       ELSE UNCHANGED <<readonly, procs, abortControllersRef,
                        completionCheckTimeoutRef, pitches>>
    /\ UNCHANGED <<round, mounted, topics, started, budget, faulty, libVars>>

\* unmounting destroys the component's state and props; the refs and the
\* closures of runs still in progress stay alive
Unmount(i) ==
    /\ mounted' = [mounted EXCEPT ![i] = FALSE]
    /\ readonly' = [readonly EXCEPT ![i] = FALSE]
    /\ topics' = [topics EXCEPT ![i] = [concept |-> "", userGroup |-> ""]]
    /\ pitches' = [pitches EXCEPT ![i] = PitchState0]
    /\ procs' = [k \in Keys |->
                    IF k[1] = i /\ Ended(AbortAll(i, procs)[k])
                    THEN [Proc0 EXCEPT !.pc = AbortAll(i, procs)[k].pc]
                    ELSE AbortAll(i, procs)[k]]
    /\ abortControllersRef' =
         [abortControllersRef EXCEPT ![i] = [p \in AIProvider |-> NoCtrl]]
    /\ completionCheckTimeoutRef' = [completionCheckTimeoutRef EXCEPT ![i] = FALSE]

\* handleReset: back to spinning, the arena is unmounted
handleReset ==
    /\ appState.phase = "judging"
    /\ appState' = AppSpinning
    /\ Unmount(round)
    /\ UNCHANGED <<round, pendingComplete, started, calls, budget, faulty,
                   libVars>>

\* ------------------------------------------------------------ error-handling
\* A thrown value, as parseAPIError inspects it: whether it passes isAPIError,
\* its class, whether its message includes 'fetch', its name, code and
\* retryable flag, and its response (<<>> when it has none).
NoResponse == <<>>
Statuses == {0, 200, 400, 401, 403, 404, 408, 418, 429} \cup (500..599)
Responses == [status : Statuses, statusCode : {0, 503}, retryAfter : {0, 5}]

Thrown(typed, class, fetch, name, code, retryable, response) ==
    [isAPIError |-> typed, class |-> class, fetch |-> fetch, name |-> name,
     code |-> code, retryable |-> retryable, response |-> response]

TypedErrors ==
    { Thrown(TRUE, "object", FALSE, "", code, retryable, NoResponse) :
        code \in {"TIMEOUT_ERROR", "VALIDATION_ERROR"}, retryable \in BOOLEAN }
FetchErrors ==
    { Thrown(FALSE, "TypeError", fetch, "TypeError", "", FALSE, NoResponse) :
        fetch \in BOOLEAN }
PlainErrors ==
    { Thrown(FALSE, "Error", FALSE, name, code, FALSE, response) :
        name \in {"Error", "AbortError"}, code \in {"", "TIMEOUT"},
        response \in {NoResponse} \cup { <<r>> : r \in Responses } }
StringErrors == { Thrown(FALSE, "string", FALSE, "", "", FALSE, NoResponse) }
ThrownValues == TypedErrors \cup FetchErrors \cup PlainErrors \cup StringErrors

isAPIError(error) == error.isAPIError

\* createAPIError: retryable defaults to false; retryAfter is 0 except on a
\* RateLimitError
createAPIError(code, retryable) ==
    [code |-> code, retryable |-> retryable, retryAfter |-> 0]
createRateLimitError(retryAfter) ==
    [createAPIError("RATE_LIMIT_ERROR", TRUE) EXCEPT !.retryAfter = retryAfter]
createNetworkError == createAPIError("NETWORK_ERROR", TRUE)
createTimeoutError == createAPIError("TIMEOUT_ERROR", TRUE)
createAPIKeyError == createAPIError("API_KEY_ERROR", FALSE)

\* response.status || response.statusCode
StatusOf(response) ==
    IF response.status # 0 THEN response.status ELSE response.statusCode

\* parseInt(response.headers?.['retry-after'] || '60')
RetryAfterOf(response) ==
    IF response.retryAfter # 0 THEN response.retryAfter ELSE 60

\* a classifier that asks every client and server error to be retried
RetryFrom400(response) ==
    createAPIError("HTTP_ERROR", StatusOf(response) >= 400)

parseHTTPError(response) ==
    LET status == StatusOf(response)
    IN CASE status = 400 -> createAPIError("BAD_REQUEST", FALSE)
         [] status = 401 -> createAPIKeyError
         [] status = 403 -> createAPIError("FORBIDDEN", FALSE)
         [] status = 404 -> createAPIError("NOT_FOUND", FALSE)
         [] status = 429 -> createRateLimitError(RetryAfterOf(response))
         [] status = 500 -> createAPIError("INTERNAL_SERVER_ERROR", TRUE)
         [] status \in {502, 503, 504} ->
                createAPIError("SERVICE_UNAVAILABLE", TRUE)
         [] OTHER -> createAPIError("HTTP_ERROR", status >= 500)

parseAPIError(error) ==
    IF isAPIError(error)
    THEN [code |-> error.code, retryable |-> error.retryable, retryAfter |-> 0]
    ELSE IF error.class = "TypeError" /\ error.fetch THEN createNetworkError
    ELSE IF error.name = "AbortError" \/ error.code = "TIMEOUT"
         THEN createTimeoutError
    ELSE IF error.response # NoResponse THEN parseHTTPError(error.response[1])
    ELSE createAPIError("UNKNOWN_ERROR", FALSE)

\* parseAPIError is applied to the value of the session
Classify ==
    /\ raw # <<>>
    /\ classified = <<>>
    /\ classified' = <<parseAPIError(raw[1])>>
    /\ UNCHANGED <<raw, retry, judge, post, stream, fallback,
                   breaker, arenaVars, homeVars>>

\* withRetry --------------------------------------------------------------
RETRY_CONFIG == [maxRetries |-> 3, retryDelay |-> 1000, backoffMultiplier |-> 2]

\* the options a caller passes: the defaults, or its own policy
RetryOptions ==
    { RETRY_CONFIG,
      [maxRetries |-> 1, retryDelay |-> 500, backoffMultiplier |-> 3] }

\* the values the wrapped operation may reject with
OperationErrors ==
    { Thrown(FALSE, "TypeError", TRUE, "TypeError", "", FALSE, NoResponse),
      Thrown(FALSE, "Error", FALSE, "AbortError", "", FALSE, NoResponse),
      Thrown(FALSE, "Error", FALSE, "Error", "", FALSE,
             <<[status |-> 429, statusCode |-> 0, retryAfter |-> 5]>>),
      Thrown(FALSE, "Error", FALSE, "Error", "", FALSE,
             <<[status |-> 400, statusCode |-> 0, retryAfter |-> 0]>>) }

\* a backoff that grows with the product, not the power
Times(base, exponent) == base * exponent

\* Math.pow(base, exponent)
RECURSIVE Pow(_, _)
Pow(base, exponent) ==
    IF exponent = 0 THEN 1 ELSE base * Pow(base, exponent - 1)

\* a condition that asks for every error to be retried
AlwaysRetry(error) == TRUE

\* the default retryCondition: (error) => error.retryable
retryCondition(error) == error.retryable

\* one call of withRetry: pc is where it stands ("off": no call), attempt the
\* loop variable, invoked the number of times operation() was called, log the
\* onRetry calls and waits in the order made
RetryOff == [pc |-> "off", options |-> RETRY_CONFIG, attempt |-> 0,
             invoked |-> 0, lastError |-> <<>>, log |-> <<>>]
RetryStart(options) ==
    [RetryOff EXCEPT !.pc = "call", !.options = options, !.invoked = 1]

\* the catch block of the loop body
RetryCatch(r, error) ==
    LET lastError == parseAPIError(error)
        delay == r.options.retryDelay *
                 Pow(r.options.backoffMultiplier, r.attempt)
    IN IF r.attempt = r.options.maxRetries \/ ~retryCondition(lastError)
       THEN [r EXCEPT !.pc = "thrown", !.lastError = <<lastError>>]
       ELSE [r EXCEPT !.pc = "wait", !.lastError = <<lastError>>,
                      !.log = @ \o << <<"onRetry", lastError.code,
                                        r.attempt + 1>>,
                                      <<"wait", "", delay>> >>]

\* operation() resolves: withRetry returns its value
OperationResolves ==
    /\ retry.pc = "call"
    /\ retry' = [retry EXCEPT !.pc = "returned"]
    /\ UNCHANGED <<raw, classified, judge, post, stream, fallback,
                   breaker, arenaVars, homeVars>>

\* operation() rejects
OperationRejects ==
    /\ retry.pc = "call"
    /\ \E error \in OperationErrors : retry' = RetryCatch(retry, error)
    /\ UNCHANGED <<raw, classified, judge, post, stream, fallback,
                   breaker, arenaVars, homeVars>>

\* the wait is over: the next iteration calls operation()
RetryWaitDone ==
    /\ retry.pc = "wait"
    /\ retry' = [retry EXCEPT !.pc = "call", !.attempt = @ + 1,
                              !.invoked = @ + 1]
    /\ UNCHANGED <<raw, classified, judge, post, stream, fallback,
                   breaker, arenaVars, homeVars>>

\* --------------------------------------------------------------------- judge
\* A number is held in tenths, 75 for 7.5, so that Math.round has halves to
\* round.  Num(n) is the integer n.
Num(n) == n * 10

\* Math.round: the nearest integer, a half going up
MathRound(value) == ((value + 5) \div 10) * 10
MathMax(a, b) == IF a >= b THEN a ELSE b
MathMin(a, b) == IF a <= b THEN a ELSE b

\* scores handed on as the judge model gave them
PassScores(scores) == scores

\* normalizeScores and its clamp
clamp(value) == MathMax(Num(1), MathMin(Num(10), MathRound(value)))
normalizeScores(scores) == [p \in AIProvider |-> clamp(scores[p])]

\* What generateText gave the judge route: a text holding a JSON object of the
\* expected shape, prose without JSON, a JSON object of another shape, or an
\* exception (a generic one, or one whose message names a rate limit).
UpstreamScores == {0 - 20, 4, 46, 75, 85, 104, 150}
JudgeResults == [scores : [AIProvider -> UpstreamScores], winner : AIProvider]
UpstreamFailures ==
    { [kind |-> k, result |-> <<>>] :
        k \in {"prose", "malformed", "throws", "rate_limit"} }
Upstreams ==
    { [kind |-> "json", result |-> <<r>>] : r \in JudgeResults }
    \cup UpstreamFailures

validateJudgeResponse(upstream) == upstream.kind = "json"

\* createErrorResponse of a route: a JSON body with the given status
createErrorResponse(code, retryable, status) ==
    [status |-> status, code |-> code, retryable |-> retryable,
     scores |-> <<>>, winner |-> ""]

\* POST of the judge route
JudgePOST(key, body, upstream) ==
    IF ~key THEN createErrorResponse("MISSING_API_KEY", FALSE, 500)
    ELSE IF body # "valid"
         THEN createErrorResponse("VALIDATION_ERROR", FALSE, 400)
    ELSE IF upstream.kind = "rate_limit"
         THEN createErrorResponse("RATE_LIMIT_ERROR", TRUE, 429)
    ELSE IF upstream.kind = "throws"
         THEN createErrorResponse("INTERNAL_ERROR", TRUE, 500)
    ELSE IF upstream.kind = "prose"
         THEN createErrorResponse("PARSE_ERROR", TRUE, 500)
    ELSE IF ~validateJudgeResponse(upstream)
         THEN createErrorResponse("INVALID_RESPONSE_FORMAT", TRUE, 500)
    ELSE [status |-> 200, code |-> "", retryable |-> FALSE,
          scores |-> <<normalizeScores(upstream.result[1].scores)>>,
          winner |-> upstream.result[1].winner]

\* data.scores?.[key]?.overall in callJudgeAPI: the route keys its scores by
\* provider and a JudgeScore has no field `overall`, so this is undefined
Overall(scores, key) == <<>>
\* value || default
OrDefault(value, default) ==
    IF value = <<>> \/ value = <<0>> THEN default ELSE value[1]

\* callJudgeAPI's transform of a 2xx body; random is Math.floor(Math.random() * 3)
callJudgeAPI(data, random) ==
    [scores |-> [groq |-> OrDefault(Overall(data.scores[1], "pitch1"), Num(7)),
                 openai |-> OrDefault(Overall(data.scores[1], "pitch2"), Num(7)),
                 anthropic |-> Num(random + 7)],
     winner |-> IF data.winner = "groq" THEN "groq"
                ELSE IF data.winner = "openai" THEN "openai"
                ELSE "anthropic",
     source |-> "judge-api"]

\* Object.entries(scores).reduce((a, b) => scores[a] > scores[b] ? a : b)
RECURSIVE ReduceEntries(_, _, _)
ReduceEntries(scores, a, rest) ==
    IF rest = <<>> THEN a
    ELSE ReduceEntries(scores,
                       IF scores[a] > scores[Head(rest)] THEN a ELSE Head(rest),
                       Tail(rest))

\* generateMockJudgeVerdict; draws are the three Math.floor(Math.random() * 3)
generateMockJudgeVerdict(draws) ==
    LET scores == [p \in AIProvider |-> Num(draws[p] + 7)]
    IN [scores |-> scores,
        winner |-> ReduceEntries(scores, models[1], Tail(models))]

\* generateMockJudgeResponse
generateMockJudgeResponse(draws) ==
    [scores |-> generateMockJudgeVerdict(draws).scores,
     winner |-> generateMockJudgeVerdict(draws).winner,
     source |-> "judge-mock"]

\* generateJudgeVerdict with fallbacks enabled ---------------------------------
\* the strategies of generateJudgeVerdictWithFallbacks, sorted by priority
ApiOnly == <<"judge-api">>
JudgeStrategies == <<"judge-api", "judge-mock">>

\* how the request to the judge endpoint goes: answered by the route, fetch
\* rejects, no answer within API_TIMEOUTS.judge, or a 2xx answer whose body
\* is not JSON
Transports == {"ok", "network", "hang", "html"}
Bodies == {"valid", "empty pitch"}

\* one call of generateJudgeVerdict: pc is the strategy being executed
\* ("response": judge-api has the route's response), "resolved", "rejected"
\* or "off" (no call)
JudgeOff ==
    [pc |-> "off", key |-> TRUE, body |-> "valid",
     upstream |-> [kind |-> "throws", result |-> <<>>], transport |-> "ok",
     response |-> <<>>, lastError |-> <<>>, verdict |-> <<>>,
     executed |-> <<>>]
JudgeStart(key, body, upstream, transport) ==
    [JudgeOff EXCEPT !.pc = JudgeStrategies[1], !.key = key, !.body = body,
                     !.upstream = upstream, !.transport = transport,
                     !.executed = <<JudgeStrategies[1]>>]

\* the calls explored: every upstream answer through a working route, and
\* every way of failing with one upstream answer
SampleResult == [scores |-> [p \in AIProvider |-> 85], winner |-> "openai"]
JudgeStarts ==
    { JudgeStart(TRUE, "valid", upstream, "ok") : upstream \in Upstreams }
    \cup
    { JudgeStart(key, body, upstream, transport) :
        key \in BOOLEAN, body \in Bodies, transport \in Transports,
        upstream \in UpstreamFailures
                     \cup {[kind |-> "json", result |-> <<SampleResult>>]} }

\* an APIError as a thrown value
AsThrown(apiError) ==
    Thrown(TRUE, "object", FALSE, "", apiError.code, apiError.retryable,
           NoResponse)

\* parseResponseError: the error thrown for a response that is not ok
parseResponseError(response) ==
    AsThrown(parseAPIError(
        Thrown(FALSE, "object", FALSE, "", "", FALSE,
               <<[status |-> response.status, statusCode |-> 0,
                  retryAfter |-> 0]>>)))

\* executeWithFallbacks: the catch block and the next turn of the loop
StrategyFailed(j, error) ==
    LET lastError == parseAPIError(error)
        tried == Len(j.executed)
    IN IF tried < Len(JudgeStrategies)
       THEN [j EXCEPT !.lastError = <<lastError>>,
                      !.pc = JudgeStrategies[tried + 1],
                      !.executed = @ \o <<JudgeStrategies[tried + 1]>>]
       ELSE [j EXCEPT !.lastError = <<lastError>>, !.pc = "rejected"]

\* the judge route answers the POST
JudgeRoute ==
    /\ judge.pc = "judge-api"
    /\ judge.transport = "ok"
    /\ judge' = [judge EXCEPT
                   !.pc = "response",
                   !.response = <<JudgePOST(judge.key, judge.body,
                                            judge.upstream)>>]
    /\ UNCHANGED <<raw, classified, retry, post, stream, fallback,
                   breaker, arenaVars, homeVars>>

\* callJudgeAPI after the response arrived
CallJudgeAPI ==
    /\ judge.pc = "response"
    /\ IF judge.response[1].status = 200
       THEN \E random \in 0..2 :
              judge' = [judge EXCEPT
                          !.pc = "resolved",
                          !.verdict = <<callJudgeAPI(judge.response[1],
                                                     random)>>]
       ELSE judge' = StrategyFailed(judge,
                                    parseResponseError(judge.response[1]))
    /\ UNCHANGED <<raw, classified, retry, post, stream, fallback,
                   breaker, arenaVars, homeVars>>

\* callJudgeAPI rejects without a usable response: fetch rejects with a
\* TypeError, withTimeout rejects with a TimeoutError, or response.json()
\* throws a SyntaxError
TransportError(transport) ==
    IF transport = "network"
    THEN Thrown(FALSE, "TypeError", TRUE, "TypeError", "", FALSE, NoResponse)
    ELSE IF transport = "hang" THEN AsThrown(createTimeoutError)
    ELSE Thrown(FALSE, "Error", FALSE, "SyntaxError", "", FALSE, NoResponse)

JudgeTransportFails ==
    /\ judge.pc = "judge-api"
    /\ judge.transport # "ok"
    /\ judge' = StrategyFailed(judge, TransportError(judge.transport))
    /\ UNCHANGED <<raw, classified, retry, post, stream, fallback,
                   breaker, arenaVars, homeVars>>

\* the judge-mock strategy: generateMockJudgeResponse
MockJudge ==
    /\ judge.pc = "judge-mock"
    /\ \E draws \in [AIProvider -> 0..2] :
         judge' = [judge EXCEPT
                     !.pc = "resolved",
                     !.verdict = <<generateMockJudgeResponse(draws)>>]
    /\ UNCHANGED <<raw, classified, retry, post, stream, fallback,
                   breaker, arenaVars, homeVars>>

\* --------------------------------------------------------------- pitch routes
\* The value of a body field: absent, '', a string of spaces, a string with
\* text, or a number.  A request body is text that is not JSON, the JSON
\* value null, or a JSON object with the two fields.
FieldValues == {"undefined", "empty", "blank", "text", "number"}
PitchRequests ==
    [kind : {"invalid json", "null"}, concept : {"undefined"},
     userGroup : {"undefined"}]
    \cup [kind : {"object"}, concept : FieldValues, userGroup : FieldValues]

\* !value || typeof value !== 'string', and value.trim().length === 0
MissingOrNotString(value) == value \notin {"blank", "text"}
TrimsToEmpty(value) == value \in {"empty", "blank"}

validateRequest(body) ==
    /\ ~MissingOrNotString(body.concept)
    /\ ~MissingOrNotString(body.userGroup)
    /\ ~TrimsToEmpty(body.concept)
    /\ ~TrimsToEmpty(body.userGroup)

\* POST of a pitch route (groq, anthropic); reading a field of null throws a
\* TypeError, which the outer catch answers with the generic error
PitchPOST(key, request) ==
    IF ~key THEN createErrorResponse("MISSING_API_KEY", FALSE, 500)
    ELSE IF request.kind = "invalid json"
         THEN createErrorResponse("INVALID_JSON", FALSE, 400)
    ELSE IF request.kind = "null"
         THEN createErrorResponse("INTERNAL_ERROR", TRUE, 500)
    ELSE IF ~validateRequest(request)
         THEN createErrorResponse("VALIDATION_ERROR", FALSE, 400)
    ELSE [status |-> 200, code |-> "", retryable |-> FALSE,
          scores |-> <<>>, winner |-> ""]

\* one POST to a pitch route: the route, whether its API key is set, the
\* request and the response
PostOff ==
    [pc |-> "off", route |-> "groq", key |-> TRUE,
     request |-> [kind |-> "null", concept |-> "undefined",
                  userGroup |-> "undefined"],
     response |-> <<>>]
Posts ==
    { [PostOff EXCEPT !.pc = "sent", !.route = route, !.key = key,
                      !.request = request] :
        route \in {"groq", "anthropic"}, key \in BOOLEAN,
        request \in PitchRequests }

PitchRoute ==
    /\ post.pc = "sent"
    /\ post' = [post EXCEPT !.pc = "answered",
                            !.response = <<PitchPOST(post.key, post.request)>>]
    /\ UNCHANGED <<raw, classified, retry, judge, stream, fallback,
                   breaker, arenaVars, homeVars>>

\* ------------------------------------------------------------ event stream
\* The groq response character by character.  A text is a sequence of
\* one-character strings.  The JSON of an event is written {..}: {xy} stands
\* for {"type":"text","content":"xy"} and {} for {"type":"done"}; like the
\* JSON it stands for, no proper prefix of it parses.
Marker == <<"d", "a", "t", "a", ":", " ">>
Letters == {"x", "y"}
Whitespace == {" ", "\n"}

\* String.prototype.includes / startsWith
Includes(s, sub) ==
    \E k \in 1..(Len(s) - Len(sub) + 1) : SubSeq(s, k, k + Len(sub) - 1) = sub
StartsWith(s, prefix) ==
    Len(s) >= Len(prefix) /\ SubSeq(s, 1, Len(prefix)) = prefix

\* chunk.split('\n')
RECURSIVE SplitLines(_)
SplitLines(s) ==
    IF s = <<>> THEN << <<>> >>
    ELSE LET rest == SplitLines(Tail(s))
         IN IF Head(s) = "\n" THEN << <<>> >> \o rest
            ELSE << <<Head(s)>> \o Head(rest) >> \o Tail(rest)

\* String.prototype.trim
RECURSIVE TrimText(_)
TrimText(s) ==
    IF s # <<>> /\ Head(s) \in Whitespace THEN TrimText(Tail(s))
    ELSE IF s # <<>> /\ s[Len(s)] \in Whitespace
         THEN TrimText(SubSeq(s, 1, Len(s) - 1))
    ELSE s

\* JSON.parse: whether it returns, and what
ParsesAsJson(s) ==
    /\ Len(s) >= 2
    /\ s[1] = "{"
    /\ s[Len(s)] = "}"
    /\ \A k \in 2..(Len(s) - 1) : s[k] \in Letters
JsonParse(s) ==
    [type |-> IF Len(s) = 2 THEN "done" ELSE "text",
     content |-> SubSeq(s, 2, Len(s) - 1)]

\* the route's encoder: one event per content delta, then the done event
TextEvent(content) == Marker \o <<"{">> \o content \o <<"}", "\n", "\n">>
DoneEvent == Marker \o <<"{", "}", "\n", "\n">>

\* catch (parseError): console.warn, nothing is appended
SkipLine(jsonStr) == <<>>

\* the for loop over the lines of a chunk: what it adds to updateQueue
RECURSIVE DecodeLines(_)
DecodeLines(lines) ==
    IF lines = <<>> THEN <<>>
    ELSE LET line == Head(lines)
             jsonStr == TrimText(SubSeq(line, Len(Marker) + 1, Len(line)))
         IN IF ~StartsWith(line, Marker) \/ jsonStr = <<>>
            THEN DecodeLines(Tail(lines))
            ELSE IF ~ParsesAsJson(jsonStr)
            THEN SkipLine(jsonStr) \o DecodeLines(Tail(lines))
            ELSE IF JsonParse(jsonStr).type = "text"
                    /\ JsonParse(jsonStr).content # <<>>
            THEN JsonParse(jsonStr).content \o DecodeLines(Tail(lines))
            ELSE IF JsonParse(jsonStr).type = "done" THEN <<>>
            ELSE DecodeLines(Tail(lines))

\* what one chunk of the groq stream adds to updateQueue
DecodeSse(chunk) ==
    IF Includes(chunk, Marker) THEN DecodeLines(SplitLines(chunk)) ELSE chunk

\* the streams read: what the route emits for one and for two content
\* deltas, and a stream with an event line that is not JSON
SseStreams ==
    { TextEvent(<<"x", "y">>) \o DoneEvent,
      TextEvent(<<"x">>) \o TextEvent(<<"y">>) \o DoneEvent,
      TextEvent(<<"x">>) \o Marker \o <<"y", "x", "\n", "\n">> \o DoneEvent }

\* one read loop: the bytes sent, those not yet read, what has been added to
\* updateQueue so far, and the number of chunks read
StreamOff == [pc |-> "off", sent |-> <<>>, rest |-> <<>>, content |-> <<>>,
              reads |-> 0]

StreamStarts ==
    { [StreamOff EXCEPT !.pc = "read", !.sent = sent, !.rest = sent] :
        sent \in SseStreams }

\* reader.read() returns the next chunk, of any length
StreamRead ==
    /\ stream.pc = "read"
    /\ stream.rest # <<>>
    /\ \E n \in 1..Len(stream.rest) :
         stream' = [stream EXCEPT
                      !.rest = SubSeq(stream.rest, n + 1, Len(stream.rest)),
                      !.content = @ \o DecodeSse(SubSeq(stream.rest, 1, n)),
                      !.reads = @ + 1]
    /\ UNCHANGED <<raw, classified, retry, judge, post, fallback,
                   breaker, arenaVars, homeVars>>

\* reader.read() returns done
StreamEnd ==
    /\ stream.pc = "read"
    /\ stream.rest = <<>>
    /\ stream' = [stream EXCEPT !.pc = "done"]
    /\ UNCHANGED <<raw, classified, retry, judge, post, fallback,
                   breaker, arenaVars, homeVars>>

\* -------------------------------------------------------- executeWithFallbacks
\* A strategy: its name, its priority, and what execute() does: "resolves",
\* or the value it rejects with.
StrategyErrors ==
    { Thrown(FALSE, "TypeError", TRUE, "TypeError", "", FALSE, NoResponse),
      AsThrown(createAPIKeyError) }
StrategyOutcomes == {<<>>} \cup { <<error>> : error \in StrategyErrors }
Strategy(name, priority, outcome) ==
    [name |-> name, priority |-> priority, outcome |-> outcome]

\* the strategies of generatePitchWithFallbacks; the mock strategy builds its
\* response locally and does not reject
PitchStrategies(provider, outcome) ==
    << Strategy(<<provider, "api">>, 1, outcome),
       Strategy(<<provider, "mock">>, 2, <<>>) >>

Positions == <<"first", "second", "third">>

\* the arrays a caller may pass: up to three strategies in any order of
\* priority, each with any outcome
StrategyLists ==
    UNION { { [n \in 1..len |-> Strategy(<<"strategy", Positions[n]>>,
                                          priorities[n], outcomes[n])] :
                priorities \in [1..len -> 1..3],
                outcomes \in [1..len -> StrategyOutcomes] } : len \in 1..3 }
    \cup { PitchStrategies(provider, outcome) :
             provider \in AIProvider, outcome \in StrategyOutcomes }

\* the array as the caller passed it
CallerOrder(strategies) == strategies

\* [...strategies].sort((a, b) => a.priority - b.priority): a stable sort
RECURSIVE InsertByPriority(_, _)
InsertByPriority(sorted, strategy) ==
    IF sorted = <<>> THEN <<strategy>>
    ELSE IF sorted[Len(sorted)].priority <= strategy.priority
         THEN sorted \o <<strategy>>
    ELSE InsertByPriority(SubSeq(sorted, 1, Len(sorted) - 1), strategy)
         \o <<sorted[Len(sorted)]>>
RECURSIVE SortFrom(_, _)
SortFrom(sorted, rest) ==
    IF rest = <<>> THEN sorted
    ELSE SortFrom(InsertByPriority(sorted, Head(rest)), Tail(rest))
sortedStrategies(strategies) == SortFrom(<<>>, strategies)

\* one call of executeWithFallbacks: the array passed, the sorted array, the
\* names executed so far in order, the strategy whose value was returned and
\* the last classified error
FallbackOff ==
    [pc |-> "off", strategies |-> <<>>, sorted |-> <<>>, executed |-> <<>>,
     returned |-> <<>>, lastError |-> <<>>]
FallbackStarts ==
    { [FallbackOff EXCEPT !.pc = "run", !.strategies = strategies,
                          !.sorted = sortedStrategies(strategies)] :
        strategies \in StrategyLists }

\* the strategy the loop is at
CurrentStrategy(f) == f.sorted[Len(f.executed) + 1]

\* strategy.execute() resolves: its value is returned
StrategyResolves ==
    /\ fallback.pc = "run"
    /\ CurrentStrategy(fallback).outcome = <<>>
    /\ fallback' = [fallback EXCEPT
                      !.pc = "returned",
                      !.executed = @ \o <<CurrentStrategy(fallback).name>>,
                      !.returned = <<CurrentStrategy(fallback).name>>]
    /\ UNCHANGED <<raw, classified, retry, judge, post, stream, breaker,
                   arenaVars, homeVars>>

\* strategy.execute() rejects: the catch block, then the next strategy, or
\* throw lastError after the loop
StrategyRejects ==
    /\ fallback.pc = "run"
    /\ CurrentStrategy(fallback).outcome # <<>>
    /\ fallback' = [fallback EXCEPT
                      !.pc = IF Len(fallback.executed) + 1 = Len(fallback.sorted)
                             THEN "thrown" ELSE "run",
                      !.executed = @ \o <<CurrentStrategy(fallback).name>>,
                      !.lastError =
                         <<parseAPIError(CurrentStrategy(fallback).outcome[1])>>]
    /\ UNCHANGED <<raw, classified, retry, judge, post, stream, breaker,
                   arenaVars, homeVars>>

\* --------------------------------------------------------------- CircuitBreaker
\* One breaker and the execute calls made on it.  Time is counted in ticks of
\* Date.now(); a caller is idle, has its operation in flight ("running"), or
\* holds the outcome of its last call: "refused" (CIRCUIT_BREAKER_OPEN thrown
\* before the operation), "resolved" or "rejected".
Callers == {"A", "B", "C"}
BreakerOptions ==
    { [failureThreshold |-> threshold, resetTimeout |-> 1] :
        threshold \in {1, 2} }

BreakerOff ==
    [pc |-> "off", options |-> [failureThreshold |-> 1, resetTimeout |-> 1],
     state |-> "CLOSED", failureCount |-> 0, lastFailureTime |-> 0,
     now |-> 0, call |-> [c \in Callers |-> "idle"]]
BreakerStarts ==
    { [BreakerOff EXCEPT !.pc = "on", !.options = options] :
        options \in BreakerOptions }

\* Date.now() - this.lastFailureTime > this.options.resetTimeout
ResetElapsed(b) == b.now - b.lastFailureTime > b.options.resetTimeout

onSuccess(b) ==
    [b EXCEPT !.failureCount = 0,
              !.state = IF b.state = "HALF_OPEN" THEN "CLOSED" ELSE b.state]

onFailure(b) ==
    [b EXCEPT !.failureCount = b.failureCount + 1,
              !.lastFailureTime = b.now,
              !.state = IF b.failureCount + 1 >= b.options.failureThreshold
                        THEN "OPEN" ELSE b.state]

\* execute(operation) up to its await: the OPEN test, then operation() is
\* called
Execute(c) ==
    /\ breaker.pc = "on"
    /\ breaker.call[c] # "running"
    /\ breaker' =
         IF breaker.state = "OPEN" /\ ~ResetElapsed(breaker)
         THEN [breaker EXCEPT !.call[c] = "refused"]
         ELSE [breaker EXCEPT
                 !.call[c] = "running",
                 !.state = IF breaker.state = "OPEN" THEN "HALF_OPEN"
                           ELSE breaker.state]
    /\ UNCHANGED <<raw, classified, retry, judge, post, stream, fallback,
                   arenaVars, homeVars>>

\* the operation of caller c resolves: onSuccess, return result
CallResolves(c) ==
    /\ breaker.call[c] = "running"
    /\ breaker' = [onSuccess(breaker) EXCEPT !.call[c] = "resolved"]
    /\ UNCHANGED <<raw, classified, retry, judge, post, stream, fallback,
                   arenaVars, homeVars>>

\* the operation of caller c rejects: onFailure, throw error
CallRejects(c) ==
    /\ breaker.call[c] = "running"
    /\ breaker' = [onFailure(breaker) EXCEPT !.call[c] = "rejected"]
    /\ UNCHANGED <<raw, classified, retry, judge, post, stream, fallback,
                   arenaVars, homeVars>>

\* time passes
ClockTick ==
    /\ breaker.pc = "on"
    /\ breaker.now < MaxTime
    /\ breaker' = [breaker EXCEPT !.now = @ + 1]
    /\ UNCHANGED <<raw, classified, retry, judge, post, stream, fallback,
                   arenaVars, homeVars>>

\* ------------------------------------------------------------- specification
vars == <<appState, round, mounted, readonly, topics, pitches,
          abortControllersRef, completionCheckTimeoutRef, pendingComplete,
          started, calls, procs, budget, faulty, raw, classified, retry,
          judge, post, stream, fallback, breaker>>

\* a session is a battle, a value to classify, a call of withRetry, a call of
\* generateJudgeVerdict, or a POST to a pitch route
NoBudget == [rounds |-> 0, faults |-> 0, odd |-> 0, clicks |-> 0]
InitBattle ==
    /\ budget \in Budgets
    /\ raw = <<>>
    /\ classified = <<>>
    /\ retry = RetryOff
    /\ judge = JudgeOff
    /\ post = PostOff
    /\ stream = StreamOff
    /\ fallback = FallbackOff
    /\ breaker = BreakerOff
InitClassify ==
    /\ budget = NoBudget
    /\ raw \in { <<error>> : error \in ThrownValues }
    /\ classified = <<>>
    /\ retry = RetryOff
    /\ judge = JudgeOff
    /\ post = PostOff
    /\ stream = StreamOff
    /\ fallback = FallbackOff
    /\ breaker = BreakerOff
InitRetry ==
    /\ budget = NoBudget
    /\ raw = <<>>
    /\ classified = <<>>
    /\ retry \in { RetryStart(options) : options \in RetryOptions }
    /\ judge = JudgeOff
    /\ post = PostOff
    /\ stream = StreamOff
    /\ fallback = FallbackOff
    /\ breaker = BreakerOff
InitJudge ==
    /\ budget = NoBudget
    /\ raw = <<>>
    /\ classified = <<>>
    /\ retry = RetryOff
    /\ judge \in JudgeStarts
    /\ post = PostOff
    /\ stream = StreamOff
    /\ fallback = FallbackOff
    /\ breaker = BreakerOff
InitPost ==
    /\ budget = NoBudget
    /\ raw = <<>>
    /\ classified = <<>>
    /\ retry = RetryOff
    /\ judge = JudgeOff
    /\ post \in Posts
    /\ stream = StreamOff
    /\ fallback = FallbackOff
    /\ breaker = BreakerOff

InitStream ==
    /\ budget = NoBudget
    /\ raw = <<>>
    /\ classified = <<>>
    /\ retry = RetryOff
    /\ judge = JudgeOff
    /\ post = PostOff
    /\ stream \in StreamStarts
    /\ fallback = FallbackOff
    /\ breaker = BreakerOff

InitFallback ==
    /\ budget = NoBudget
    /\ raw = <<>>
    /\ classified = <<>>
    /\ retry = RetryOff
    /\ judge = JudgeOff
    /\ post = PostOff
    /\ stream = StreamOff
    /\ fallback \in FallbackStarts
    /\ breaker = BreakerOff

InitBreaker ==
    /\ budget = NoBudget
    /\ raw = <<>>
    /\ classified = <<>>
    /\ retry = RetryOff
    /\ judge = JudgeOff
    /\ post = PostOff
    /\ stream = StreamOff
    /\ fallback = FallbackOff
    /\ breaker \in BreakerStarts

Init ==
    /\ InitHome
    /\ InitArena
    /\ \/ InitBattle \/ InitClassify \/ InitRetry \/ InitJudge \/ InitPost
       \/ InitStream \/ InitFallback \/ InitBreaker

ArenaStep ==
    \/ \E i \in Insts : StaggerStart(i)
    \/ \E i \in Insts : CheckAllComplete(i)
    \/ \E i \in Insts : OnPitchesComplete(i)
    \/ \E i \in Insts, p \in AIProvider : retryPitch(i, p)
    \/ \E k \in Keys : ResponseFail(k[1], k[2], k[3])
    \/ \E k \in Keys : ResponseStream(k[1], k[2], k[3])
    \/ \E k \in Keys : ResponseJson(k[1], k[2], k[3])
    \/ \E k \in Keys : ReadChunk(k[1], k[2], k[3])
    \/ \E k \in Keys : ReadDone(k[1], k[2], k[3])
    \/ \E k \in Keys : ReadError(k[1], k[2], k[3])
    \/ \E k \in Keys : RafFire(k[1], k[2], k[3])
    \/ \E k \in Keys : AbortedFetch(k[1], k[2], k[3])
    \/ \E k \in Keys : RetryTimer(k[1], k[2], k[3])
    \/ \E k \in Keys : IntervalTick(k[1], k[2], k[3])

Next ==
    \/ SpinComplete
    \/ RevealDone
    \/ handleReset
    \/ ArenaStep
    \/ Classify
    \/ OperationResolves
    \/ OperationRejects
    \/ RetryWaitDone
    \/ JudgeRoute
    \/ CallJudgeAPI
    \/ JudgeTransportFails
    \/ MockJudge
    \/ PitchRoute
    \/ StreamRead
    \/ StreamEnd
    \/ StrategyResolves
    \/ StrategyRejects
    \/ \E c \in Callers : Execute(c)
    \/ \E c \in Callers : CallResolves(c)
    \/ \E c \in Callers : CallRejects(c)
    \/ ClockTick

Spec == Init /\ [][Next]_vars

\* ------------------------------------------------------------------- claims
\* the runs of provider p in arena i that are not chain c have never started
OnlyChain(i, p, c) ==
    \A d \in Chains : d # c => procs[<<i, p, d>>].pc = "idle"

\* nothing of arena i is pending: no fetch, stream, interval, backoff wait,
\* animation frame, debounce timer or deferred callback
Quiet(i) ==
    /\ started[i] = Len(models)
    /\ \A p \in AIProvider, c \in Chains :
         /\ procs[<<i, p, c>>].pc \in {"idle", "done", "failed", "aborted"}
         /\ ~procs[<<i, p, c>>].raf
    /\ ~completionCheckTimeoutRef[i]
    /\ pendingComplete[i] = <<>>

C2_CalledOnValidSlots ==
    [][\A i \in Insts :
          /\ calls'[i] > calls[i] =>
                /\ allComplete(pitches[i])
                /\ allHaveContent(pitches[i])
          /\ (pendingComplete'[i] # <<>> /\ pendingComplete[i] = <<>>) =>
                pendingComplete'[i] = <<finalPitches(pitches[i])>>]_vars

\* one provider failed on every attempt, the other two streamed a pitch with
\* valid content, and the user did nothing
OneFailedOthersDone(i) ==
    \E p \in AIProvider :
        /\ procs[<<i, p, 0>>].pc = "failed"
        /\ procs[<<i, p, 0>>].attempts = maxRetries + 1
        /\ \A q \in AIProvider :
             /\ OnlyChain(i, q, 0)
             /\ q # p => /\ procs[<<i, q, 0>>].pc = "done"
                         /\ hasValidContent(procs[<<i, q, 0>>].text)

\* C3: if one provider's endpoint fails on every attempt while the other two
\* succeed with valid content, the round still completes: once nothing is
\* pending any more, the completion callback has fired.
C3_RoundCompletes ==
    \A i \in Insts :
        (mounted[i] /\ Quiet(i) /\ OneFailedOthersDone(i)) => calls[i] >= 1

\* C4: when a provider's endpoint fails on every attempt, its slot ends with
\* isComplete = true, the mock fallback pitch of that provider and the round's
\* topics as content, and the last error as error.
C4_FallbackContent ==
    \A i \in Insts, p \in AIProvider :
        ( /\ mounted[i]
          /\ procs[<<i, p, 0>>].pc = "failed"
          /\ procs[<<i, p, 0>>].attempts = maxRetries + 1
          /\ ~procs[<<i, p, 0>>].raf
          /\ OnlyChain(i, p, 0) )
        => /\ pitches[i][p].isComplete
           /\ pitches[i][p].content =
                generateMockPitch(topics[i].concept, topics[i].userGroup, p)
           /\ pitches[i][p].error # NoError

\* C5: when the endpoint delivers a complete stream on the first attempt, the
\* slot's final content is the concatenation of the stream's text pieces in
\* emission order, each exactly once, with isComplete = true and no error.
C5_StreamedContent ==
    \A i \in Insts, p \in AIProvider :
        ( /\ mounted[i]
          /\ procs[<<i, p, 0>>].pc = "done"
          /\ procs[<<i, p, 0>>].attempts = 1
          /\ ~procs[<<i, p, 0>>].raf
          /\ OnlyChain(i, p, 0) )
        => /\ pitches[i][p].content = procs[<<i, p, 0>>].text
           /\ pitches[i][p].isComplete
           /\ pitches[i][p].error = NoError

\* arena i is cancelled by this step: it leaves the battling phase (it turns
\* readonly) or it is unmounted
Cancelled(i) ==
    /\ mounted[i] /\ ~readonly[i]
    /\ ~mounted'[i] \/ readonly'[i]

\* the cancellation aborts every fetch of the arena that is in flight
CancelAbortsFetches ==
    \A k \in Keys :
        (Cancelled(k[1]) /\ procs[k].pc \in {"fetch", "read"})
        => procs'[k].aborted

\* a step of a run of an unmounted arena leaves the arenas mounted after it,
\* their completion checks and the callback alone
StaleStepHarmless ==
    \A k \in Keys :
        (~mounted[k[1]] /\ k[1] <= round /\ procs'[k] # procs[k])
        => /\ \A j \in Insts : j # k[1] =>
                 /\ pitches'[j] = pitches[j]
                 /\ completionCheckTimeoutRef'[j] = completionCheckTimeoutRef[j]
           /\ pendingComplete' = pendingComplete
           /\ calls' = calls
           /\ appState' = appState

\* C6: starting a new round, or leaving the battling round, cancels the
\* round's in-flight fetches, and no chunk, word-reveal tick or completion of
\* the old round changes a slot of the new round or triggers its callback.
C6_RoundCancelled == [][CancelAbortsFetches /\ StaleStepHarmless]_vars

\* C6, second half alone: what arrives for an unmounted arena changes nothing
\* of the new round
C6_StaleStepHarmless == [][StaleStepHarmless]_vars

\* C7: when a fetch ends by cancellation, the catch block returns: the slots
\* are left as they are (no error recorded), no retry is scheduled and the
\* completion check is not triggered.
C7_AbortDoesNothing ==
    [][\A k \in Keys :
          ( /\ procs[k].aborted
            /\ procs[k].pc \in {"fetch", "read"}
            /\ procs'[k].pc # procs[k].pc )
          => /\ procs'[k].pc = "aborted"
             /\ pitches' = pitches
             /\ completionCheckTimeoutRef' = completionCheckTimeoutRef
             /\ abortControllersRef' = abortControllersRef]_vars

\* a fetch of a mounted arena was cancelled and its catch block has run
C7_Aborted ==
    \E k \in Keys : mounted[k[1]] /\ procs[k].pc = "aborted"

\* the classes of thrown values the classifier tells apart
IsNetworkFailure(error) == error.class = "TypeError" /\ error.fetch
IsTimeout(error) == error.name = "AbortError" \/ error.code = "TIMEOUT"
HasStatus(error, statuses) ==
    /\ ~IsNetworkFailure(error)
    /\ ~IsTimeout(error)
    /\ error.response # NoResponse
    /\ StatusOf(error.response[1]) \in statuses

\* C8: parseAPIError / parseHTTPError set retryable = true exactly for a
\* network failure, a timeout, HTTP 429 and HTTP 5xx, and retryable = false
\* for HTTP 400, 401, 403 and 404.
C8_RetryableClasses ==
    (classified # <<>> /\ ~isAPIError(raw[1])) =>
        /\ classified[1].retryable <=>
              \/ IsNetworkFailure(raw[1])
              \/ IsTimeout(raw[1])
              \/ HasStatus(raw[1], {429} \cup (500..599))
        /\ HasStatus(raw[1], {400, 401, 403, 404}) => ~classified[1].retryable

\* a response with a 5xx status outside the switch cases has been classified
C8_Classified5xx ==
    /\ classified # <<>>
    /\ HasStatus(raw[1], {599})
    /\ classified[1].retryable

RetryClicked(i, p) ==
    /\ budget'.clicks < budget.clicks
    /\ pitches[i][p].isComplete
    /\ pitches[i][p].error # NoError
    /\ \E c \in Chains : /\ procs'[<<i, p, c>>].pc = "fetch"
                         /\ procs'[<<i, p, c>>] # procs[<<i, p, c>>]

\* C10: manual retry of a provider whose slot is terminal after failure resets
\* the slot to content empty, isComplete = false, error cleared and
\* isRetrying = true, and runs the fetch flow with a fresh attempt counter.
C10_ManualRetryResets ==
    [][\A i \in Insts, p \in AIProvider :
          RetryClicked(i, p) =>
            /\ pitches'[i][p] = [content |-> <<>>, isComplete |-> FALSE,
                                 error |-> NoError, isRetrying |-> TRUE]
            /\ \E c \in Chains : /\ procs'[<<i, p, c>>].pc = "fetch"
                                 /\ procs'[<<i, p, c>>].rc = 0
                                 /\ procs'[<<i, p, c>>].attempts = 1]_vars

\* a manual retry of a terminally failed provider is running, with a fresh
\* attempt counter
C10_RetryRunning ==
    \E i \in Insts, p \in AIProvider :
        /\ budget.clicks = 0
        /\ procs[<<i, p, 0>>].pc = "fetch"
        /\ procs[<<i, p, 0>>].rc = 0
        /\ faulty = {<<i, p, 0>>}
        /\ budget.faults = 0
        /\ pitches[i][p] = ResetSlot(0)

\* the user clicks a retry control of provider p of arena i in this step
ManualRetry(i, p) ==
    /\ budget'.clicks < budget.clicks
    /\ \E c \in Chains : /\ procs'[<<i, p, c>>].pc = "fetch"
                         /\ procs'[<<i, p, c>>] # procs[<<i, p, c>>]

\* C11: once a slot has isComplete = true it stays complete with the same
\* content in every later state of the arena, unless the user triggers a
\* manual retry for that provider: no retry timer, late stream or batched
\* update resets or rewrites it.
C11_CompleteIsAbsorbing ==
    [][\A i \in Insts, p \in AIProvider :
          ( /\ mounted[i] /\ mounted'[i]
            /\ pitches[i][p].isComplete
            /\ ~ManualRetry(i, p) )
          => /\ pitches'[i][p].isComplete
             /\ pitches'[i][p].content = pitches[i][p].content]_vars

\* C11, the reset alone: a complete slot is never made incomplete again
\* except by a manual retry
C11_CompleteStaysComplete ==
    [][\A i \in Insts, p \in AIProvider :
          ( /\ mounted[i] /\ mounted'[i]
            /\ pitches[i][p].isComplete
            /\ ~ManualRetry(i, p) )
          => pitches'[i][p].isComplete]_vars

\* a slot completed by its stream, with every batch flushed
C11_Completed ==
    \E i \in Insts, p \in AIProvider :
        /\ mounted[i]
        /\ pitches[i][p].isComplete
        /\ pitches[i][p].error = NoError
        /\ \A c \in Chains : FreeChain(i, p, c)

\* the integers nearest to a number (a half has two), and an integer brought
\* into [1, 10]
NearestIntegers(value) ==
    { r \in (value - 10)..(value + 10) :
        r % 10 = 0 /\ 2 * (r - value) <= 10 /\ 2 * (value - r) <= 10 }
IntoRange(r) == IF r < Num(1) THEN Num(1) ELSE IF r > Num(10) THEN Num(10) ELSE r
ScoreRange == { Num(n) : n \in 1..10 }

\* C12: every score of a verdict produced by the judge endpoint is an integer
\* in [1, 10]: each is the upstream score rounded to the nearest integer and
\* clamped to [1, 10], and normalizing twice gives what normalizing once gives.
C12_ScoresNormalized ==
    /\ (judge.response # <<>> /\ judge.response[1].status = 200) =>
          LET upstream == judge.upstream.result[1].scores
              scores == judge.response[1].scores[1]
          IN /\ \A p \in AIProvider :
                   /\ scores[p] \in ScoreRange
                   /\ \E r \in NearestIntegers(upstream[p]) :
                         scores[p] = IntoRange(r)
             /\ normalizeScores(normalizeScores(upstream)) =
                   normalizeScores(upstream)
    /\ judge.verdict # <<>> =>
          \A p \in AIProvider : judge.verdict[1].scores[p] \in ScoreRange

\* the route has answered with the scores 15, -2 and 4.6 normalized to 10, 1
\* and 5
C12_Clamped ==
    /\ judge.response # <<>>
    /\ judge.response[1].status = 200
    /\ judge.upstream.result[1].scores =
          [groq |-> 150, openai |-> 0 - 20, anthropic |-> 46]
    /\ judge.response[1].scores[1] =
          [groq |-> Num(10), openai |-> Num(1), anthropic |-> Num(5)]

\* the providers holding the maximum score, and the first of them in the
\* order groq, openai, anthropic
Best(scores) ==
    { p \in AIProvider : \A q \in AIProvider : scores[q] <= scores[p] }
FirstBest(scores) ==
    models[CHOOSE n \in 1..Len(models) :
              /\ models[n] \in Best(scores)
              /\ \A m \in 1..(n - 1) : models[m] \notin Best(scores)]

\* C13: in every verdict the system produces (the judge route's response, the
\* APIClient's judge response, the mock verdict) the winner is one of the
\* three providers and holds the maximum score; among several holding it, the
\* winner is the first in the order groq, openai, anthropic.
C13_WinnerIsFirstBest ==
    /\ (judge.response # <<>> /\ judge.response[1].status = 200) =>
          judge.response[1].winner = FirstBest(judge.response[1].scores[1])
    /\ judge.verdict # <<>> =>
          judge.verdict[1].winner = FirstBest(judge.verdict[1].scores)

\* C13, the first part alone: the winner is one of the three providers
C13_WinnerIsProvider ==
    /\ (judge.response # <<>> /\ judge.response[1].status = 200) =>
          judge.response[1].winner \in AIProvider
    /\ judge.verdict # <<>> => judge.verdict[1].winner \in AIProvider

\* a verdict of each kind has been produced
C13_VerdictProduced ==
    /\ judge.verdict # <<>>
    /\ judge.verdict[1].source = "judge-api"
    /\ judge.response[1].status = 200

\* a step of the call of generateJudgeVerdict
JudgeStep == JudgeRoute \/ CallJudgeAPI \/ JudgeTransportFails \/ MockJudge

\* C14: with fallbacks enabled generateJudgeVerdict never rejects and, once
\* it can go no further, has resolved with a verdict, however the judge
\* endpoint fails; a verdict of the mock fallback has three integer scores in
\* [7, 9] and a winner that holds the maximum score.
C14_AlwaysAVerdict ==
    /\ judge.pc # "rejected"
    /\ (judge.pc # "off" /\ ~ENABLED JudgeStep) =>
          /\ judge.pc = "resolved"
          /\ judge.verdict # <<>>
    /\ (judge.verdict # <<>> /\ judge.verdict[1].source = "judge-mock") =>
          /\ \A p \in AIProvider :
                judge.verdict[1].scores[p] \in {Num(7), Num(8), Num(9)}
          /\ judge.verdict[1].winner \in Best(judge.verdict[1].scores)

\* the endpoint did not answer in time and the mock verdict was returned
C14_MockAfterTimeout ==
    /\ judge.pc = "resolved"
    /\ judge.transport = "hang"
    /\ judge.lastError = <<createTimeoutError>>
    /\ judge.verdict[1].source = "judge-mock"
    /\ judge.executed = <<"judge-api", "judge-mock">>

\* the request is one the claim speaks of: not JSON, or concept or userGroup
\* missing or empty
Rejectable(request) ==
    \/ request.kind \in {"invalid json", "null"}
    \/ request.concept \in {"undefined", "empty"}
    \/ request.userGroup \in {"undefined", "empty"}

\* C15: a POST to a pitch endpoint whose body is not valid JSON, or whose
\* concept or userGroup is missing or empty, is answered with status 400 in
\* every server configuration, the provider's API key being set or not.
C15_InvalidIs400 ==
    (post.pc = "answered" /\ Rejectable(post.request)) =>
        post.response[1].status = 400

\* with the key set, an empty concept has been rejected with 400
C15_Rejected ==
    /\ post.pc = "answered"
    /\ post.key
    /\ post.request.kind = "object"
    /\ post.request.concept = "empty"
    /\ post.response[1] = createErrorResponse("VALIDATION_ERROR", FALSE, 400)

\* arena i has been cancelled: it was mounted and is now unmounted, or its
\* effect was cleaned up when it turned readonly
IsCancelled(i) == i <= round /\ (~mounted[i] \/ readonly[i])

\* C16: after a round is cancelled no further request of that round is
\* issued: no pending retry timer or staggered-start timer launches a fetch.
C16_NoRequestAfterCancel ==
    [][\A k \in Keys :
          (IsCancelled(k[1]) /\ ~ManualRetry(k[1], k[2]))
          => ~(procs'[k].pc = "fetch" /\ procs[k].pc # "fetch")]_vars

\* a round was cancelled while a retry timer of it was pending
C16_TimerPendingAtCancel ==
    \E k \in Keys : IsCancelled(k[1]) /\ procs[k].pc = "wait"

\* a run of streamPitch that writes, or is about to write, to its slot: its
\* fetch is in flight, its stream or word reveal is running, or a batch of it
\* awaits its animation frame
Writing(pr) == pr.pc \in {"fetch", "read", "interval"} \/ pr.raf

\* C17: at any time at most one fetch / stream per provider is writing to
\* that provider's slot, also when a manual retry is clicked while an
\* automatic retry is pending or running.
C17_OneWriterPerSlot ==
    \A i \in Insts, p \in AIProvider :
        mounted[i] =>
            Cardinality({ c \in Chains : Writing(procs[<<i, p, c>>]) }) <= 1

\* a manual retry was clicked while an automatic retry of the same provider
\* was pending
C17_RetryDuringBackoff ==
    \E i \in Insts, p \in AIProvider :
        /\ mounted[i]
        /\ procs[<<i, p, 0>>].pc = "wait"
        /\ procs[<<i, p, 1>>].pc = "fetch"

\* what fetch rejects with when its AbortController is aborted
AbortError == Thrown(FALSE, "Error", FALSE, "AbortError", "", FALSE, NoResponse)

\* the classifier does not give a cancellation the classification of a timeout
ClassifierTellsCancellation ==
    (classified = <<>> /\ classified' # <<>> /\ raw[1] = AbortError)
    => classified'[1].code # createTimeoutError.code

\* withRetry does not go on to another attempt after a cancellation
NoRetryAfterCancellation ==
    (retry.pc = "call" /\ retry' = RetryCatch(retry, AbortError))
    => retry'.pc = "thrown"

\* C18: a failure by cancellation is distinguishable from a failure by
\* timeout in the classifier, and withRetry never re-invokes its operation
\* after the operation failed by cancellation (AbortError).
C18_CancellationShortCircuits ==
    [][ClassifierTellsCancellation /\ NoRetryAfterCancellation]_vars

\* withRetry has invoked its operation again after an AbortError
C18_RetriedAfterAbort ==
    /\ retry.pc = "call"
    /\ retry.invoked = 2
    /\ retry.lastError = <<parseAPIError(AbortError)>>

\* a request of run k fails in this step with a status the classifier calls
\* non-retryable
FailsNonRetryable(k) ==
    /\ procs[k].pc = "fetch"
    /\ procs'[k].pc \in {"wait", "failed"}
    /\ pitches'[k[1]][k[2]].error # NoError
    /\ pitches'[k[1]][k[2]].error[1].message = "HTTP 401"

\* C19: the fetcher never automatically retries a failure that is classified
\* non-retryable: the provider goes straight to its terminal state, and no
\* retry is scheduled.
C19_NoRetryOfNonRetryable ==
    [][\A k \in Keys : FailsNonRetryable(k) => procs'[k].pc = "failed"]_vars

\* a first attempt was answered with 401 and the slot shows that error
C19_Unauthorized ==
    \E i \in Insts, p \in AIProvider :
        /\ mounted[i]
        /\ procs[<<i, p, 0>>].attempts = 1
        /\ procs[<<i, p, 0>>].pc # "fetch"
        /\ pitches[i][p].error # NoError
        /\ pitches[i][p].error[1].message = "HTTP 401"

\* the retries withRetry has started, and the wait the claim gives retry
\* number k + 1
Retries(r) == IF r.pc = "wait" THEN r.attempt + 1 ELSE r.attempt
RECURSIVE BackoffDelay(_, _)
BackoffDelay(options, k) ==
    IF k = 0 THEN options.retryDelay
    ELSE options.backoffMultiplier * BackoffDelay(options, k - 1)

\* C20: withRetry waits retryDelay * backoffMultiplier^k before retry number
\* k + 1 (1000, 2000, 4000 ms with the defaults), and for each retry it calls
\* onRetry(error, k + 1) after the failed attempt and before that wait, once
\* per retry and never after the final failure.
C20_BackoffAndObserver ==
    retry.pc # "off" =>
        /\ Len(retry.log) = 2 * Retries(retry)
        /\ \A k \in 0..(Retries(retry) - 1) :
              /\ retry.log[2 * k + 1][1] = "onRetry"
              /\ retry.log[2 * k + 1][3] = k + 1
              /\ retry.log[2 * k + 2] =
                    <<"wait", "", BackoffDelay(retry.options, k)>>
        /\ retry.pc = "wait" =>
              retry.log[Len(retry.log) - 1][2] = retry.lastError[1].code
        /\ (retry.options = RETRY_CONFIG /\ Retries(retry) = 3) =>
              /\ retry.log[2][3] = 1000
              /\ retry.log[4][3] = 2000
              /\ retry.log[6][3] = 4000

\* under the default policy the last error was thrown after three retries:
\* three calls of onRetry, three waits, nothing after the final failure
C20_ThreeRetriesLogged ==
    /\ retry.options = RETRY_CONFIG
    /\ retry.pc = "thrown"
    /\ retry.invoked = 4
    /\ Len(retry.log) = 6

\* the errors the default retry condition turns down
Refused(error) == error.retryable = FALSE

\* the step in which operation() rejects inside withRetry
OperationFailed == retry.pc = "call" /\ retry'.pc \in {"thrown", "wait"}

\* C21: when the operation fails with an error for which retryCondition is
\* false, withRetry rethrows that classified error at once: the operation is
\* not invoked again, onRetry is not called and no wait happens.
C21_NonRetryableRethrown ==
    [][/\ (OperationFailed /\ Refused(retry'.lastError[1])) =>
             /\ retry'.pc = "thrown"
             /\ \E error \in OperationErrors :
                    retry'.lastError = <<parseAPIError(error)>>
             /\ retry'.invoked = retry.invoked
             /\ retry'.log = retry.log
       /\ retry.pc = "thrown" => retry' = retry]_vars

\* a first attempt failed and was retried; the second attempt failed with an
\* error that is not retryable and was rethrown with one retry left
C21_RethrownOnSecondAttempt ==
    /\ retry.options = RETRY_CONFIG
    /\ retry.pc = "thrown"
    /\ retry.invoked = 2
    /\ Refused(retry.lastError[1])
    /\ Len(retry.log) = 2

\* run c of provider p in instance i waits for its retry timer, and the
\* component shows the slot
InBackoff(i, p, c) == mounted[i] /\ procs[<<i, p, c>>].pc = "wait"

\* C22: between a failed attempt and the start of the next automatic attempt,
\* during the backoff wait, the provider's slot has isRetrying = true, so the
\* card shows the retrying state and not the error / manual-retry state.
C22_RetryingDuringBackoff ==
    \A i \in Insts, p \in AIProvider, c \in Chains :
        InBackoff(i, p, c) =>
            /\ pitches[i][p].isRetrying
            /\ StatusLabel(pitches[i][p]) = "RETRYING..."

\* the first attempt of a provider has failed and its retry timer is pending,
\* no other run of that provider exists, and the card offers the manual retry
C22_ErrorShownDuringBackoff ==
    \E i \in Insts, p \in AIProvider :
        /\ InBackoff(i, p, 0)
        /\ procs[<<i, p, 0>>].rc = 0
        /\ \A c \in Chains \ {0} : procs[<<i, p, c>>].pc = "idle"
        /\ StatusLabel(pitches[i][p]) = "ERROR - CLICK TO RETRY"

\* a step of a run of provider p of arena i (start, response, chunk, frame,
\* tick, failure, retry timer or manual retry): only runs of that provider
\* move, and neither HomePage nor the component's mounting changes
FetcherStepOf(i, p) ==
    /\ procs' # procs
    /\ \A k \in Keys : procs'[k] # procs[k] => k[1] = i /\ k[2] = p
    /\ appState' = appState
    /\ mounted' = mounted
    /\ calls' = calls

\* the step in which the debounce timer of arena i fires: checkAllComplete
GateStepOf(i) ==
    /\ completionCheckTimeoutRef[i]
    /\ ~completionCheckTimeoutRef'[i]
    /\ procs' = procs
    /\ mounted' = mounted
    /\ calls' = calls

\* C23: every state update made by the fetcher of provider p changes only
\* slot p: the slots of the other two providers, and those of every other
\* arena, are left as they were by any step of p's fetch, retry or manual
\* retry; and the completion gate changes no slot.
C23_OnlyOwnSlot ==
    [][/\ \A i \in Insts, p \in AIProvider :
            FetcherStepOf(i, p) =>
                /\ \A q \in AIProvider \ {p} : pitches'[i][q] = pitches[i][q]
                /\ \A j \in Insts \ {i} : pitches'[j] = pitches[j]
       /\ \A i \in Insts : GateStepOf(i) => pitches' = pitches]_vars

\* one provider's run is streaming and has written content while another
\* provider's slot is already complete with its own content
C23_WritesBesideCompleteSlot ==
    \E i \in Insts, p \in AIProvider, q \in AIProvider, c \in Chains :
        /\ p # q
        /\ mounted[i]
        /\ procs[<<i, p, c>>].pc = "read"
        /\ pitches[i][p].content # <<>>
        /\ pitches[i][q].isComplete
        /\ pitches[i][q].content # <<>>

\* the number of times the call has executed the strategy
Executions(j, strategy) ==
    Cardinality({ n \in DOMAIN j.executed : j.executed[n] = strategy })

\* the mock strategy was started after the endpoint failed retryably
MockAfterRetryable(j) ==
    /\ Executions(j, "judge-mock") > 0
    /\ j.lastError # <<>>
    /\ j.lastError[1].retryable

\* C24: on a retryable failure of the judge endpoint, generateJudgeVerdict
\* with the default configuration retries the request with bounded
\* exponential backoff, and uses the mock verdict only after those retries
\* are exhausted.
C24_RetriesBeforeMock ==
    MockAfterRetryable(judge) =>
        Executions(judge, "judge-api") = RETRY_CONFIG.maxRetries + 1

\* the endpoint answered 500 with a retryable error to the only request made
\* and the call resolved with the mock verdict
C24_MockAfterOneRequest ==
    /\ judge.pc = "resolved"
    /\ judge.verdict[1].source = "judge-mock"
    /\ judge.response # <<>>
    /\ judge.response[1].status = 500
    /\ judge.response[1].retryable
    /\ MockAfterRetryable(judge)
    /\ Executions(judge, "judge-api") = 1

\* C25: for the event-delimited (groq) stream the decoded text does not
\* depend on how the bytes are split into chunks: for every split of the same
\* event stream, splits in the middle of a line included, the text appended
\* to the slot equals the text obtained from the unsplit stream.
C25_SplitIndependent ==
    stream.pc = "done" => stream.content = DecodeSse(stream.sent)

\* a stream has been read to its end in two chunks
C25_ReadInTwoChunks ==
    /\ stream.pc = "done"
    /\ stream.reads = 2
    /\ stream.content # DecodeSse(stream.sent)

\* the lines of a stream that carry the event marker and whose remainder is
\* not empty and does not parse as JSON: their remainders
UnparsableLines(sent) ==
    { TrimText(SubSeq(SplitLines(sent)[k], Len(Marker) + 1,
                      Len(SplitLines(sent)[k]))) :
        k \in { n \in DOMAIN SplitLines(sent) :
                  /\ StartsWith(SplitLines(sent)[n], Marker)
                  /\ Len(SplitLines(sent)[n]) > Len(Marker)
                  /\ ~ParsesAsJson(TrimText(SubSeq(SplitLines(sent)[n],
                                                   Len(Marker) + 1,
                                                   Len(SplitLines(sent)[n])))) } }

\* C26: in the event-delimited stream a line that carries the event marker
\* and whose remainder fails JSON parsing is appended verbatim to the slot's
\* content as plain text; it is never silently dropped.  (Stated for a stream
\* that arrives in one chunk, so that every line is seen whole.)
C26_UnparsableLineKept ==
    (stream.pc = "done" /\ stream.reads = 1) =>
        \A text \in UnparsableLines(stream.sent) :
            Includes(stream.content, text)

\* a stream with an event line that is not JSON was read whole, in one chunk
C26_UnparsableLineRead ==
    /\ stream.pc = "done"
    /\ stream.reads = 1
    /\ UnparsableLines(stream.sent) # {}

\* withRetry waits after an attempt that failed with HTTP 429 and a
\* retry-after hint (in seconds)
WaitsAfterRateLimit(r) ==
    /\ r.pc = "wait"
    /\ r.lastError[1].code = "RATE_LIMIT_ERROR"
    /\ r.lastError[1].retryAfter > 0

\* C27: when a request fails with HTTP 429 carrying a retry-after hint, the
\* wait before the next retry is at least the hinted duration.
C27_HonoursRetryAfter ==
    WaitsAfterRateLimit(retry) =>
        retry.log[Len(retry.log)][3] >= retry.lastError[1].retryAfter * 1000

\* the first attempt failed with 429 and retry-after: 5; the wait has begun
C27_RateLimitedOnce ==
    /\ WaitsAfterRateLimit(retry)
    /\ retry.options = RETRY_CONFIG
    /\ retry.attempt = 0
    /\ retry.lastError[1].retryAfter = 5

\* the strategy of the call that has the name
StrategyNamed(f, name) ==
    CHOOSE strategy \in { f.strategies[n] : n \in DOMAIN f.strategies } :
        strategy.name = name
Failed(f, name) == StrategyNamed(f, name).outcome # <<>>

\* C28: executeWithFallbacks runs the strategies in ascending priority order
\* one at a time, returns the result of the first strategy that succeeds
\* without executing any later one, and rejects, with the classified error of
\* the last strategy, only when every strategy failed; hence generatePitch
\* with fallbacks invokes the mock strategy only after the API strategy failed.
C28_FallbackOrder ==
    LET f == fallback
        ran == f.executed
        last == ran[Len(ran)]
    IN f.pc # "off" =>
        /\ \A m, n \in DOMAIN ran : ran[m] = ran[n] => m = n
        /\ \A m, n \in DOMAIN ran :
              m < n => StrategyNamed(f, ran[m]).priority
                          <= StrategyNamed(f, ran[n]).priority
        /\ \A n \in DOMAIN ran, k \in DOMAIN f.strategies :
              f.strategies[k].priority < StrategyNamed(f, ran[n]).priority
                  => \E m \in 1..(n - 1) : ran[m] = f.strategies[k].name
        /\ \A n \in 1..(Len(ran) - 1) : Failed(f, ran[n])
        /\ f.pc = "run" => \A n \in DOMAIN ran : Failed(f, ran[n])
        /\ f.pc = "returned" =>
              /\ ran # <<>>
              /\ ~Failed(f, last)
              /\ f.returned = <<last>>
        /\ f.pc = "thrown" =>
              /\ Len(ran) = Len(f.strategies)
              /\ \A n \in DOMAIN ran : Failed(f, ran[n])
              /\ f.lastError =
                    <<parseAPIError(StrategyNamed(f, last).outcome[1])>>
        /\ \A provider \in AIProvider, n \in DOMAIN ran :
              ran[n] = <<provider, "mock">> =>
                  \E m \in 1..(n - 1) : /\ ran[m] = <<provider, "api">>
                                        /\ Failed(f, ran[m])

\* of three strategies passed out of priority order the first in priority
\* failed, the second returned and the third was not executed
C28_SecondStrategyReturned ==
    /\ fallback.pc = "returned"
    /\ Len(fallback.strategies) = 3
    /\ fallback.strategies[1].priority > fallback.strategies[2].priority
    /\ fallback.strategies[3].priority > fallback.strategies[1].priority
    /\ fallback.executed = <<fallback.strategies[2].name,
                             fallback.strategies[1].name>>

\* the moves of the phase that the claim allows
PhaseCycle ==
    { <<"spinning", "revealing">>, <<"revealing", "battling">>,
      <<"battling", "judging">>, <<"judging", "spinning">> }

\* the deferred completion callback of arena i runs in this step
CallbackRuns(i) == pendingComplete[i] # <<>> /\ pendingComplete'[i] = <<>>

\* C29: the app phase advances only along spinning -> revealing -> battling
\* -> judging -> spinning; judging is entered only from battling, at most
\* once per round (a round starts when battling is entered), carrying exactly
\* the pitches passed by the completion callback; a completion callback that
\* arrives in any other phase leaves the app state unchanged; reset from
\* judging returns to spinning.
C29_PhaseMachine ==
    [][/\ appState'.phase # appState.phase =>
             <<appState.phase, appState'.phase>> \in PhaseCycle
       /\ round' # round =>
             /\ round' = round + 1
             /\ appState.phase = "revealing"
             /\ appState'.phase = "battling"
       /\ (appState'.phase = "judging" /\ appState.phase # "judging") =>
             \E i \in Insts :
                /\ CallbackRuns(i)
                /\ appState' = [phase |-> "judging",
                                concept |-> appState.concept,
                                userGroup |-> appState.userGroup,
                                pitches |-> pendingComplete[i]]
       /\ \A i \in Insts :
             (CallbackRuns(i) /\ appState.phase # "battling") =>
                 appState' = appState
       /\ (appState.phase = "judging" /\ appState' # appState) =>
             appState' = AppSpinning]_vars

\* the completion callback has run a second time, in the judging phase, and
\* the pitches under judgement are still those of the first call
C29_SecondCallbackInJudging ==
    /\ appState.phase = "judging"
    /\ calls[round] >= 2
    /\ appState.pitches # <<>>

\* caller c calls execute in this step, and its operation settles in this step
Executes(c) ==
    /\ breaker.call[c] # "running"
    /\ breaker'.call[c] \in {"running", "refused"}
    /\ breaker' # breaker
Settles(c, outcome) ==
    breaker.call[c] = "running" /\ breaker'.call[c] = outcome

\* C30: for any interleaving of concurrent execute calls: while the state is
\* OPEN and resetTimeout has not elapsed since the last failure, execute
\* rejects with CIRCUIT_BREAKER_OPEN without invoking the operation; a failed
\* operation in HALF_OPEN always returns the breaker to OPEN; and a success in
\* HALF_OPEN closes it.
C30_BreakerTransitions ==
    [][\A c \in Callers :
         /\ (/\ breaker.state = "OPEN"
             /\ breaker.now - breaker.lastFailureTime
                    <= breaker.options.resetTimeout
             /\ Executes(c)) =>
                /\ breaker'.call[c] = "refused"
                /\ breaker'.state = "OPEN"
         /\ (breaker.state = "HALF_OPEN" /\ Settles(c, "rejected")) =>
                breaker'.state = "OPEN"
         /\ (breaker.state = "HALF_OPEN" /\ Settles(c, "resolved")) =>
                breaker'.state = "CLOSED"]_vars

\* with a threshold of two failures, the breaker is HALF_OPEN after a probe
\* was rejected in HALF_OPEN: one failure counted, no operation in flight
C30_FailedProbeStillHalfOpen ==
    /\ breaker.state = "HALF_OPEN"
    /\ breaker.options.failureThreshold = 2
    /\ breaker.failureCount = 1
    /\ breaker.lastFailureTime = breaker.now
    /\ \E c \in Callers : breaker.call[c] = "rejected"
    /\ \A c \in Callers : breaker.call[c] # "running"

====
